---- MODULE Spec2Model ----
(***************************************************************************)
(* State-machine model of the BLE security-manager peripheral of           *)
(* examples/mbedos5/mbed-os-example-ble/BLE_SM/source/main.cpp:            *)
(* class SMDevice, its subclass SMDevicePeripheral and main().             *)
(*                                                                         *)
(* One action per callback the event queue runs.  Every action records the *)
(* event it handled in `ev` and the calls it made to the security manager, *)
(* GAP and the event queue, in order, in `cmds`.                           *)
(*                                                                         *)
(* main.cpp hard-codes the persistent-service behaviour: the deferred      *)
(* Gap::disconnect of pairingResult and the break_dispatch of              *)
(* on_disconnect and on_timeout are commented out, so the model has none   *)
(* of them.                                                                *)
(***************************************************************************)
EXTENDS Integers, Sequences, FiniteSets, TLC

(* ---------------------------- bounds ----------------------------------- *)

\* connection handles the stack hands out: 1..MaxHandle
MaxHandle == 2
\* the counter of start_advertising calls saturates here
MaxCount == 2

Handles == 1 .. MaxHandle

(* ------------------------ program constants ---------------------------- *)

\* SMDevice::SMDevice: _handle(0)
InitialHandle == 0
\* SMDevice::SMDevice: _led1(LED1, 0)
InitialLed == 0
\* _event_queue.call_every(500, this, &SMDevice::blink)
BlinkPeriod == 500
\* _event_queue.call_in(500, this, &SMDevice::start)
StartDelay == 500
\* _ble.gap().setAdvertisingInterval(5000)
AdvertisingInterval == 5000
\* _ble.gap().setAdvertisingTimeout(0)
AdvertisingTimeout == 0

PairingResults == {"SEC_STATUS_SUCCESS", "SEC_STATUS_FAILURE"}
EncryptionResults == {"ENCRYPTED", "ENCRYPTED_WITH_MITM", "NOT_ENCRYPTED",
                      "ENCRYPTION_IN_PROGRESS"}
TimeoutSources == {"TIMEOUT_SRC_ADVERTISING", "TIMEOUT_SRC_SCAN", "TIMEOUT_SRC_CONN"}

VARIABLES
    pc,                 \* "main" | "dispatch" | "exited": where run() is
    initPending,        \* BLE::init accepted, on_init_complete not yet called
    smHandler,          \* setSecurityManagerEventHandler(this) was called
    gapCallbacks,       \* onConnection/onDisconnection/onTimeout registered
    startPending,       \* call_in(500, start) queued and not yet run
    _handle,            \* SMDevice::_handle
    _led1,              \* SMDevice::_led1
    gapAdvertising,     \* Gap::getState().advertising
    gapConnected,       \* Gap::getState().connected
    linkHandle,         \* handle of the current or most recent connection
    everConnected,      \* some connection has existed
    authorisation,      \* setPairingRequestAuthorisation(true) was called
    report,             \* the last security status line written to serial
    ev,                 \* the event the last step handled
    cmds,               \* the calls the last step made, in order
    advSince,           \* startAdvertising calls since the last loss event
    lastLoss,           \* "none" | "disconnected" | "timeout"
    scenA,              \* progress along scenario A
    scenB,              \* progress along scenario B
    initResult,         \* "pending" | "ok" | "init_error" | "event_error" | "sm_error"
    startResult,        \* "not_run" | "ok" | "payload_error" | "adv_error"
    linkSecError        \* setLinkSecurity failed for the latest connection

vars == << pc, initPending, smHandler, gapCallbacks, startPending,
           _handle, _led1, gapAdvertising, gapConnected,
           linkHandle, everConnected, authorisation, report, ev, cmds,
           advSince, lastLoss, scenA, scenB, initResult, startResult,
           linkSecError >>

(* ---------------------- events and commands ---------------------------- *)

\* an inbound event or a timer callback; linkUp: a connection existed when
\* it was delivered
Event(type, h, res) == [type |-> type, h |-> h, res |-> res, linkUp |-> gapConnected]

\* a call made to a collaborator and the error it returned
\* n: the handle or the number of milliseconds the call is given
Cmd(cmd, n, arg, err) == [cmd |-> cmd, n |-> n, arg |-> arg, err |-> err]

InboundEvents == {"initialized", "connected", "disconnected", "pairing_requested",
                  "pairing_result", "encryption_result", "timeout"}

RECURSIVE Count(_, _)
Count(s, name) ==
    IF s = << >> THEN 0
    ELSE (IF Head(s).cmd = name THEN 1 ELSE 0) + Count(Tail(s), name)

Min(a, b) == IF a < b THEN a ELSE b

Issued(name) == Count(cmds, name)

(* ------------------ what the serial log says of security --------------- *)

\* The program keeps no security-state field: the outcome of pairing and of
\* encryption is only written to the serial port.  The security state of the
\* session is read off the last such line.
SecurityState ==
    CASE report = "Pairing requested. Authorising." -> "PairingRequested"
      [] report = "Pairing successful"              -> "Paired"
      [] report = "Pairing failed"                  -> "Failed"
      [] report = "Link ENCRYPTED"                  -> "Encrypted"
      [] report = "Link ENCRYPTED_WITH_MITM"        -> "EncryptedWithMitm"
      [] report = "Link NOT_ENCRYPTED"              -> "Unsecured"
      [] OTHER                                      -> "Unsecured"

PairedOrLater == {"Paired", "Encrypted", "EncryptedWithMitm"}

(* --------------------------- observers --------------------------------- *)

NextScenA(e, lh) ==
    IF e.type \notin InboundEvents THEN scenA
    ELSE IF e.type = "initialized" /\ e.res = "ok" THEN 1
    ELSE IF scenA = 1 /\ e.type = "connected" THEN 2
    ELSE IF scenA = 2 /\ e.type = "pairing_requested" /\ e.h = lh THEN 3
    ELSE IF scenA = 3 /\ e.type = "pairing_result" /\ e.h = lh
            /\ e.res = "SEC_STATUS_SUCCESS" THEN 4
    ELSE IF scenA = 4 /\ e.type = "encryption_result" /\ e.h = lh
            /\ e.res = "ENCRYPTED" THEN 5
    ELSE 0

NextScenB(e, lh) ==
    IF e.type \notin InboundEvents THEN scenB
    ELSE IF e.type = "connected" THEN 1
    ELSE IF scenB = 1 /\ e.type = "pairing_requested" /\ e.h = lh THEN 2
    ELSE IF scenB = 2 /\ e.type = "pairing_result" /\ e.h = lh
            /\ e.res = "SEC_STATUS_FAILURE" THEN 3
    ELSE 0

\* records the event a step handled and the calls it made
Observe(e, c) ==
    /\ ev' = e
    /\ cmds' = c
    /\ lastLoss' = IF e.type \in {"disconnected", "timeout"} THEN e.type ELSE lastLoss
    /\ advSince' = IF e.type \in {"disconnected", "timeout"}
                   THEN Min(Count(c, "startAdvertising"), MaxCount)
                   ELSE Min(advSince + Count(c, "startAdvertising"), MaxCount)
    /\ scenA' = NextScenA(e, linkHandle)
    /\ scenB' = NextScenB(e, linkHandle)

(* ----------------------------- Init ------------------------------------ *)

Init ==
    /\ pc = "main"
    /\ initPending = FALSE
    /\ smHandler = FALSE
    /\ gapCallbacks = FALSE
    /\ startPending = FALSE
    /\ _handle = InitialHandle
    /\ _led1 = InitialLed
    /\ gapAdvertising = FALSE
    /\ gapConnected = FALSE
    /\ linkHandle = InitialHandle
    /\ everConnected = FALSE
    /\ authorisation = FALSE
    /\ report = "none"
    /\ ev = [type |-> "none", h |-> InitialHandle, res |-> "", linkUp |-> FALSE]
    /\ cmds = << >>
    /\ advSince = 0
    /\ lastLoss = "none"
    /\ scenA = 0
    /\ scenB = 0
    /\ initResult = "pending"
    /\ startResult = "not_run"
    /\ linkSecError = FALSE

(* --------------------------- start-up ---------------------------------- *)

\* SMDevice::run.  main() calls it once on the fresh BLE singleton, so
\* hasInitialized() is false there.  initError: what BLE::init returns.
run(initError) ==
    /\ pc = "main"
    /\ pc' = IF initError THEN "exited" ELSE "dispatch"
    /\ initPending' = ~initError
    /\ initResult' = IF initError THEN "init_error" ELSE initResult
    /\ Observe(Event("run", InitialHandle, IF initError THEN "error" ELSE "ok"),
               << Cmd("call_every", BlinkPeriod, "blink", FALSE),
                  Cmd("onEventsToProcess", InitialHandle, "schedule_ble_events", FALSE),
                  Cmd("init", InitialHandle, "on_init_complete", initError) >>
               \o (IF initError THEN << >>
                   ELSE << Cmd("dispatch_forever", InitialHandle, "", FALSE) >>))
    /\ UNCHANGED << smHandler, gapCallbacks, startPending, _handle, _led1,
                    gapAdvertising, gapConnected, linkHandle, everConnected,
                    authorisation, report, startResult, linkSecError >>

\* as RegisterCalls, but advertising at once instead of queueing start
RegisterCalls_inline ==
    << Cmd("setSecurityManagerEventHandler", InitialHandle, "this", FALSE),
       Cmd("getAddress", InitialHandle, "", FALSE),
       Cmd("onConnection", InitialHandle, "on_connect", FALSE),
       Cmd("onDisconnection", InitialHandle, "on_disconnect", FALSE),
       Cmd("onTimeout", InitialHandle, "on_timeout", FALSE),
       Cmd("onDataWritten", InitialHandle, "onDataWrittenCallback", FALSE),
       Cmd("startAdvertising", InitialHandle, "", FALSE) >>

\* the calls on_init_complete makes after the security manager came up
RegisterCalls ==
    << Cmd("setSecurityManagerEventHandler", InitialHandle, "this", FALSE),
       Cmd("getAddress", InitialHandle, "", FALSE),
       Cmd("onConnection", InitialHandle, "on_connect", FALSE),
       Cmd("onDisconnection", InitialHandle, "on_disconnect", FALSE),
       Cmd("onTimeout", InitialHandle, "on_timeout", FALSE),
       Cmd("onDataWritten", InitialHandle, "onDataWrittenCallback", FALSE),
       Cmd("call_in", StartDelay, "start", FALSE) >>

\* as on_init_complete_proceeds, without the return after a failed
\* securityManager().init()
on_init_complete_proceeds_unchecked(eventError, smError) == ~eventError

\* on_init_complete: whether it gets past its two early returns
on_init_complete_proceeds(eventError, smError) == ~eventError /\ ~smError

\* SMDevice::on_init_complete.  eventError: event->error; smError: what
\* securityManager().init() returns.
on_init_complete(eventError, smError) ==
    /\ pc = "dispatch"
    /\ initPending
    /\ initPending' = FALSE
    /\ initResult' = IF eventError THEN "event_error"
                     ELSE IF smError THEN "sm_error" ELSE "ok"
    /\ LET ok == on_init_complete_proceeds(eventError, smError)
           c == IF eventError THEN << >>
                ELSE << Cmd("securityManager.init", InitialHandle, "", smError) >>
                     \o (IF ok THEN RegisterCalls ELSE << >>)
       IN
       /\ smHandler' = (Count(c, "setSecurityManagerEventHandler") > 0)
       /\ gapCallbacks' = (Count(c, "onConnection") > 0)
       /\ startPending' = (\E i \in 1 .. Len(c) : c[i].cmd = "call_in" /\ c[i].arg = "start")
       /\ Observe(Event("initialized", InitialHandle, IF eventError THEN "error" ELSE "ok"), c)
    /\ UNCHANGED << pc, _handle, _led1, gapAdvertising, gapConnected, linkHandle,
                    everConnected, authorisation, report, startResult, linkSecError >>

\* as start_calls, without the return after a failed setAdvertisingPayload
start_calls_no_return(payloadError, advError) ==
    << Cmd("setAdvertisingPayload", InitialHandle, "", payloadError),
       Cmd("setAdvertisingType", InitialHandle, "ADV_CONNECTABLE_UNDIRECTED", FALSE),
       Cmd("setAdvertisingInterval", AdvertisingInterval, "", FALSE),
       Cmd("setAdvertisingTimeout", AdvertisingTimeout, "", FALSE),
       Cmd("startAdvertising", InitialHandle, "", advError) >>
    \o (IF advError THEN << >>
        ELSE << Cmd("setPairingRequestAuthorisation", InitialHandle, "true", FALSE) >>)

\* as start_calls, without the call that turns authorisation on
start_calls_no_authorisation(payloadError, advError) ==
    << Cmd("setAdvertisingPayload", InitialHandle, "", payloadError) >>
    \o (IF payloadError THEN << >>
        ELSE << Cmd("setAdvertisingType", InitialHandle, "ADV_CONNECTABLE_UNDIRECTED", FALSE),
                Cmd("setAdvertisingInterval", AdvertisingInterval, "", FALSE),
                Cmd("setAdvertisingTimeout", AdvertisingTimeout, "", FALSE),
                Cmd("startAdvertising", InitialHandle, "", advError) >>)

\* start: the calls it makes.  payloadError, advError: what
\* setAdvertisingPayload and startAdvertising return.
start_calls(payloadError, advError) ==
    << Cmd("setAdvertisingPayload", InitialHandle, "", payloadError) >>
    \o (IF payloadError THEN << >>
        ELSE << Cmd("setAdvertisingType", InitialHandle, "ADV_CONNECTABLE_UNDIRECTED", FALSE),
                Cmd("setAdvertisingInterval", AdvertisingInterval, "", FALSE),
                Cmd("setAdvertisingTimeout", AdvertisingTimeout, "", FALSE),
                Cmd("startAdvertising", InitialHandle, "", advError) >>)
    \o (IF ~payloadError /\ ~advError
        THEN << Cmd("setPairingRequestAuthorisation", InitialHandle, "true", FALSE) >>
        ELSE << >>)

\* dispatch_forever returns once a callback has called break_dispatch
DispatchAfter(c) == IF Count(c, "break_dispatch") > 0 THEN "exited" ELSE pc

\* GAP advertises once a startAdvertising among the calls c has succeeded
AdvertisingAfter(c) ==
    IF \E i \in 1 .. Len(c) : c[i].cmd = "startAdvertising" /\ ~c[i].err
    THEN TRUE ELSE gapAdvertising

\* SMDevicePeripheral::start, run by the event queue StartDelay after
\* on_init_complete
start(payloadError, advError) ==
    /\ pc = "dispatch"
    /\ startPending
    /\ startPending' = FALSE
    /\ startResult' = IF payloadError THEN "payload_error"
                      ELSE IF advError THEN "adv_error" ELSE "ok"
    /\ LET c == start_calls(payloadError, advError) IN
       /\ gapAdvertising' = AdvertisingAfter(c)
       /\ authorisation' = (authorisation \/ Count(c, "setPairingRequestAuthorisation") > 0)
       /\ Observe(Event("start", InitialHandle,
                        IF payloadError \/ advError THEN "error" ELSE "ok"), c)
    /\ UNCHANGED << pc, initPending, smHandler, gapCallbacks, _handle, _led1,
                    gapConnected, linkHandle, everConnected, report, initResult,
                    linkSecError >>

\* SMDevice::blink, run by the event queue every BlinkPeriod
blink ==
    /\ pc = "dispatch"
    /\ _led1' = IF gapAdvertising THEN 0
                ELSE IF gapConnected THEN 1 - _led1
                ELSE _led1
    /\ Observe(Event("blink", InitialHandle, ""),
               << Cmd("getState", InitialHandle, "", FALSE) >>)
    /\ UNCHANGED << pc, initPending, smHandler, gapCallbacks, startPending,
                    _handle, gapAdvertising, gapConnected, linkHandle,
                    everConnected, authorisation, report, initResult, startResult,
                    linkSecError >>

(* ------------------- what the stack may deliver ------------------------ *)

\* GAP calls the callbacks registered by on_init_complete while run() is in
\* dispatch_forever
GapDelivers == pc = "dispatch" /\ gapCallbacks

\* the security manager calls the registered SecurityManager::EventHandler
SmDelivers == pc = "dispatch" /\ smHandler

\* A disconnected event may be a duplicate or stale: it may come after the
\* link went down and may name any handle, but only once a connection has
\* existed.  The events of the security manager may name any handle at any
\* time.
DisconnectPossible == everConnected

(* ------------------- handlers of SMDevicePeripheral -------------------- *)

\* on_connect: the security level requested for a new connection
RequestedSecurity == "SECURITY_MODE_ENCRYPTION_NO_MITM"

\* on_connect: _handle = connection_event->handle
on_connect_handle(h) == h

\* as on_connect_calls, but on the handle stored before this connection
on_connect_calls_stale(stored, secError) ==
    << Cmd("setLinkSecurity", _handle, RequestedSecurity, secError) >>

\* as on_connect_calls, but dropping the link when the request fails
on_connect_calls_bail(stored, secError) ==
    << Cmd("setLinkSecurity", stored, RequestedSecurity, secError) >>
    \o (IF secError
        THEN << Cmd("disconnect", stored, "REMOTE_USER_TERMINATED_CONNECTION", FALSE) >>
        ELSE << >>)

\* on_connect: the calls it makes, on the handle it has just stored.
\* secError: what setLinkSecurity returns.
on_connect_calls(stored, secError) ==
    << Cmd("setLinkSecurity", stored, RequestedSecurity, secError) >>

\* SMDevicePeripheral::on_connect.  A peer can connect only to an advertising
\* device without a link; the connection ends advertising.
on_connect(h, secError) ==
    /\ GapDelivers
    /\ gapAdvertising
    /\ ~gapConnected
    /\ gapAdvertising' = FALSE
    /\ gapConnected' = TRUE
    /\ linkHandle' = h
    /\ everConnected' = TRUE
    /\ _handle' = on_connect_handle(h)
    /\ LET c == on_connect_calls(_handle', secError) IN
       /\ linkSecError' = (\E i \in 1 .. Len(c) : c[i].cmd = "setLinkSecurity" /\ c[i].err)
       /\ Observe(Event("connected", h, ""), c)
    /\ UNCHANGED << pc, initPending, smHandler, gapCallbacks, startPending,
                    _led1, authorisation, report, initResult, startResult >>

(* ------------------------ handlers of SMDevice ------------------------- *)

\* as pairingRequest_calls, but on the stored handle
pairingRequest_calls_stored(connectionHandle) ==
    << Cmd("acceptPairingRequest", _handle, "", FALSE) >>

\* as pairingRequest_calls, but only while a link is up
pairingRequest_calls_guarded(connectionHandle) ==
    IF gapConnected
    THEN << Cmd("acceptPairingRequest", connectionHandle, "", FALSE) >>
    ELSE << >>

\* pairingRequest: the calls it makes
pairingRequest_calls(connectionHandle) ==
    << Cmd("acceptPairingRequest", connectionHandle, "", FALSE) >>

\* SMDevice::pairingRequest.  The stack raises it only when pairing-request
\* authorisation is on.
pairingRequest(connectionHandle) ==
    /\ SmDelivers
    /\ authorisation
    /\ report' = "Pairing requested. Authorising."
    /\ Observe(Event("pairing_requested", connectionHandle, ""),
               pairingRequest_calls(connectionHandle))
    /\ UNCHANGED << pc, initPending, smHandler, gapCallbacks, startPending,
                    _handle, _led1, gapAdvertising, gapConnected,
                    linkHandle, everConnected, authorisation, initResult,
                    startResult, linkSecError >>

\* as pairingResult_report, with the test inverted
pairingResult_report_swapped(result) ==
    IF result # "SEC_STATUS_SUCCESS" THEN "Pairing successful" ELSE "Pairing failed"

\* pairingResult: the line it prints
pairingResult_report(result) ==
    IF result = "SEC_STATUS_SUCCESS" THEN "Pairing successful" ELSE "Pairing failed"

\* as pairingResult_calls, with the deferred disconnect left in
pairingResult_calls_disconnect(result) ==
    << Cmd("call_in", StartDelay, "Gap::disconnect", FALSE) >>

\* pairingResult: the calls it makes (the deferred disconnect is commented out)
pairingResult_calls(result) == << >>

\* SMDevice::pairingResult
pairingResult(connectionHandle, result) ==
    /\ SmDelivers
    /\ report' = pairingResult_report(result)
    /\ Observe(Event("pairing_result", connectionHandle, result),
               pairingResult_calls(result))
    /\ UNCHANGED << pc, initPending, smHandler, gapCallbacks, startPending,
                    _handle, _led1, gapAdvertising, gapConnected,
                    linkHandle, everConnected, authorisation, initResult,
                    startResult, linkSecError >>

\* linkEncryptionResult: the line it prints; nothing for a result that is
\* none of the three it tests
linkEncryptionResult_report(result) ==
    IF result = "ENCRYPTED" THEN "Link ENCRYPTED"
    ELSE IF result = "ENCRYPTED_WITH_MITM" THEN "Link ENCRYPTED_WITH_MITM"
    ELSE IF result = "NOT_ENCRYPTED" THEN "Link NOT_ENCRYPTED"
    ELSE report

\* SMDevice::linkEncryptionResult
linkEncryptionResult(connectionHandle, result) ==
    /\ SmDelivers
    /\ report' = linkEncryptionResult_report(result)
    /\ Observe(Event("encryption_result", connectionHandle, result), << >>)
    /\ UNCHANGED << pc, initPending, smHandler, gapCallbacks, startPending,
                    _handle, _led1, gapAdvertising, gapConnected,
                    linkHandle, everConnected, authorisation, initResult,
                    startResult, linkSecError >>

\* as on_disconnect_handle, but clearing the handle
on_disconnect_handle_cleared == InitialHandle

\* on_disconnect: the value of _handle it leaves (it does not touch it)
on_disconnect_handle == _handle

\* as on_disconnect_calls, with break_dispatch in place of the restart
on_disconnect_calls_break(h, advError) ==
    << Cmd("break_dispatch", InitialHandle, "", FALSE) >>

\* as on_disconnect_calls, with break_dispatch left in before the restart
on_disconnect_calls_both(h, advError) ==
    << Cmd("break_dispatch", InitialHandle, "", FALSE),
       Cmd("startAdvertising", InitialHandle, "", advError) >>

\* as on_disconnect_calls, but only for the link that is up
on_disconnect_calls_guarded(h, advError) ==
    IF gapConnected /\ h = linkHandle
    THEN << Cmd("startAdvertising", InitialHandle, "", advError) >>
    ELSE << >>

\* on_disconnect: the calls it makes, whatever the event says and whether or
\* not a link was up.  advError: what startAdvertising returns (not looked at).
on_disconnect_calls(h, advError) ==
    << Cmd("startAdvertising", InitialHandle, "", advError) >>

\* SMDevice::on_disconnect.  The link named by the event, if it is up, is
\* down when the callback runs.
on_disconnect(h, advError) ==
    /\ GapDelivers
    /\ DisconnectPossible
    /\ gapConnected' = IF h = linkHandle THEN FALSE ELSE gapConnected
    /\ LET c == on_disconnect_calls(h, advError) IN
       /\ gapAdvertising' = AdvertisingAfter(c)
       /\ pc' = DispatchAfter(c)
       /\ Observe(Event("disconnected", h, ""), c)
    /\ _handle' = on_disconnect_handle
    /\ UNCHANGED << initPending, smHandler, gapCallbacks, startPending,
                    _led1, linkHandle, everConnected, authorisation,
                    report, initResult, startResult, linkSecError >>

\* as on_timeout_calls, but restarting advertising
on_timeout_calls_restart(source) ==
    << Cmd("startAdvertising", InitialHandle, "", FALSE) >>

\* as on_timeout_calls, with break_dispatch left in
on_timeout_calls_abort(source) ==
    << Cmd("break_dispatch", InitialHandle, "", FALSE) >>

\* on_timeout: the calls it makes (break_dispatch is commented out)
on_timeout_calls(source) == << >>

\* SMDevice::on_timeout.  Advertising never times out (AdvertisingTimeout is
\* 0), so a timeout says nothing about the GAP state.
on_timeout(source) ==
    /\ GapDelivers
    /\ LET c == on_timeout_calls(source) IN
       /\ pc' = DispatchAfter(c)
       /\ Observe(Event("timeout", InitialHandle, source), c)
    /\ UNCHANGED << initPending, smHandler, gapCallbacks, startPending,
                    _handle, _led1, gapAdvertising, gapConnected,
                    linkHandle, everConnected, authorisation, report, initResult,
                    startResult, linkSecError >>

(* ------------------------- specification ------------------------------- *)

Next ==
    \/ \E initError \in BOOLEAN : run(initError)
    \/ \E eventError \in BOOLEAN, smError \in BOOLEAN : on_init_complete(eventError, smError)
    \/ \E payloadError \in BOOLEAN, advError \in BOOLEAN : start(payloadError, advError)
    \/ blink
    \/ \E h \in Handles, secError \in BOOLEAN : on_connect(h, secError)
    \/ \E h \in Handles : pairingRequest(h)
    \/ \E h \in Handles, result \in PairingResults : pairingResult(h, result)
    \/ \E h \in Handles, result \in EncryptionResults : linkEncryptionResult(h, result)
    \/ \E h \in Handles, advError \in BOOLEAN : on_disconnect(h, advError)
    \/ \E source \in TimeoutSources : on_timeout(source)

Spec == Init /\ [][Next]_vars

\* the event queue runs a queued start() while run() is in dispatch_forever
FairSpec ==
    Spec /\ WF_vars(\E payloadError \in BOOLEAN, advError \in BOOLEAN :
                        start(payloadError, advError))

(* ------------------------------ claims --------------------------------- *)

\* C1 (as stated): the stored connection handle is set exactly while a
\* connection is up: cleared by a disconnected event, absent before the
\* first connected event.
C1_HandleSetIffConnected == (_handle # InitialHandle) <=> gapConnected

\* C1 (amended): the stored handle is the constructor's 0 before the first
\* connected event and from then on the handle delivered with the most
\* recent connected event; a disconnected event does not clear it.
C1_HandleIsLastConnected ==
    /\ ~everConnected => _handle = InitialHandle
    /\ everConnected => _handle = linkHandle /\ _handle # InitialHandle

C1_Witness ==
    /\ ev.type = "disconnected"
    /\ ev.linkUp
    /\ ~gapConnected
    /\ _handle = ev.h

\* C2: every pairing_requested event is answered in its own handling step by
\* exactly one accept_pairing, on the handle delivered with the event.
C2_PairingRequestAccepted ==
    ev.type = "pairing_requested" =>
        /\ Issued("acceptPairingRequest") = 1
        /\ \A i \in 1 .. Len(cmds) :
              cmds[i].cmd = "acceptPairingRequest" => cmds[i].n = ev.h

C2_Witness ==
    /\ ev.type = "pairing_requested"
    /\ ev.linkUp
    /\ ev.h # _handle
    /\ Issued("acceptPairingRequest") = 1

C5_NoAcceptWithoutConnection ==
    ev.type = "pairing_requested" /\ ~ev.linkUp => Issued("acceptPairingRequest") = 0

\* C5 (amended): a pairing_requested event delivered while no link is up is
\* answered like any other, by accept_pairing on the handle of the event and
\* nothing else.
C5_AcceptWithoutConnection ==
    ev.type = "pairing_requested" /\ ~ev.linkUp =>
        cmds = << Cmd("acceptPairingRequest", ev.h, "", FALSE) >>

C5_Witness ==
    /\ ev.type = "pairing_requested"
    /\ ~ev.linkUp
    /\ everConnected
    /\ Issued("acceptPairingRequest") = 1

\* C6: the handling step of a connected event requests link security exactly
\* once, at the level encryption without MITM protection and on the handle
\* delivered with the event; no other step requests link security.
C6_LinkSecurityOncePerConnection ==
    /\ ev.type = "connected" =>
          /\ Issued("setLinkSecurity") = 1
          /\ \A i \in 1 .. Len(cmds) :
                cmds[i].cmd = "setLinkSecurity" =>
                    /\ cmds[i].n = ev.h
                    /\ cmds[i].arg = "SECURITY_MODE_ENCRYPTION_NO_MITM"
    /\ ev.type # "connected" => Issued("setLinkSecurity") = 0

C6_Witness ==
    /\ ev.type = "connected"
    /\ lastLoss = "disconnected"
    /\ Issued("setLinkSecurity") = 1
    /\ cmds[1].n = ev.h

C8_OneShotDisconnect ==
    /\ ev.type = "pairing_result" /\ ev.res = "SEC_STATUS_SUCCESS"
          /\ ev.linkUp /\ ev.h = _handle =>
          \E i \in 1 .. Len(cmds) :
              cmds[i].cmd = "call_in" /\ cmds[i].arg = "Gap::disconnect"
    /\ ev.type = "disconnected" /\ SecurityState \in PairedOrLater =>
          Issued("startAdvertising") = 0 /\ pc = "exited"

\* C9: along initialized(ok), connected(h), pairing_requested(h),
\* pairing_result(h, success), encryption_result(h, encrypted) the device
\* answers the connected event by request_link_security(h, encryption
\* without MITM) and the pairing request by accept_pairing(h); the security
\* state is Paired after the pairing result and Encrypted after the
\* encryption result.
C9_ScenarioA ==
    /\ scenA = 2 /\ ev.type = "connected" =>
          /\ Len(cmds) = 1
          /\ cmds[1].cmd = "setLinkSecurity"
          /\ cmds[1].n = ev.h
          /\ cmds[1].arg = "SECURITY_MODE_ENCRYPTION_NO_MITM"
    /\ scenA = 3 /\ ev.type = "pairing_requested" =>
          cmds = << Cmd("acceptPairingRequest", linkHandle, "", FALSE) >>
    /\ scenA = 4 => SecurityState = "Paired"
    /\ scenA = 5 => SecurityState = "Encrypted"

C9_Witness ==
    /\ scenA = 5
    /\ ev.type = "encryption_result"
    /\ ev.h = 1
    /\ linkHandle = 1
    /\ SecurityState = "Encrypted"

\* C10: after connected(h), pairing_requested(h), pairing_result(h, failure)
\* the security state is Failed, the device has issued and scheduled no
\* disconnect and no start_advertising, and the link is still up.
C10_ScenarioB ==
    scenB = 3 =>
        /\ SecurityState = "Failed"
        /\ Issued("disconnect") = 0
        /\ Issued("call_in") = 0
        /\ Issued("startAdvertising") = 0
        /\ gapConnected
        /\ pc = "dispatch"

C10_Witness ==
    /\ scenB = 3
    /\ ev.type = "pairing_result"
    /\ ev.res = "SEC_STATUS_FAILURE"
    /\ ev.h = linkHandle
    /\ gapConnected

C12_FailedInitHalts ==
    initResult \in {"event_error", "sm_error"} =>
        /\ ~smHandler
        /\ ~gapCallbacks
        /\ ~startPending
        /\ startResult = "not_run"
        /\ Issued("setSecurityManagerEventHandler") = 0
        /\ Issued("call_in") = 0
        /\ Issued("startAdvertising") = 0
        /\ ~gapAdvertising

C12_Witness ==
    /\ initResult = "sm_error"
    /\ ev.type = "blink"
    /\ ~gapAdvertising

\* the calls that are commands to the security engine, GAP or the scheduler;
\* the registration of callbacks and the queries are not counted
OutboundCommands ==
    {"securityManager.init", "setSecurityManagerEventHandler", "acceptPairingRequest",
     "setLinkSecurity", "disconnect", "startAdvertising", "call_in", "break_dispatch"}

RECURSIVE Commands(_)
Commands(c) ==
    IF c = << >> THEN 0
    ELSE (IF Head(c).cmd \in OutboundCommands THEN 1 ELSE 0) + Commands(Tail(c))

\* C13 (as stated): the handler of every inbound event issues at most one
\* outbound command.
C13_AtMostOneCommand ==
    ev.type \in InboundEvents => Commands(cmds) <= 1

\* C13 (amended): the handlers of connected, disconnected, pairing requested,
\* pairing result, encryption result and timeout make at most one call; the
\* handler of initialized issues three commands when it succeeds (security
\* manager init, registration as event handler, scheduling of start), one
\* when the security manager's init fails and none when initialization
\* reports an error.
C13_OneCommandButInit ==
    /\ ev.type \in InboundEvents \ {"initialized"} => Len(cmds) <= 1
    /\ ev.type = "initialized" =>
          Commands(cmds) = (CASE initResult = "ok" -> 3
                              [] initResult = "sm_error" -> 1
                              [] OTHER -> 0)

C13_Witness ==
    /\ ev.type = "initialized"
    /\ initResult = "ok"
    /\ Commands(cmds) = 3
    /\ startPending

\* C14: when start() fails to set the payload it does not issue
\* start_advertising; after either failure of start() it is not queued
\* again, no later step issues start_advertising, and the device never
\* advertises and never has a connection.
C14_FailedStartStaysIdle ==
    /\ startResult = "payload_error" => Issued("startAdvertising") = 0
    /\ startResult \in {"payload_error", "adv_error"} =>
          /\ ~startPending
          /\ Issued("call_in") = 0
          /\ ev.type # "start" => Issued("startAdvertising") = 0
          /\ ~gapAdvertising
          /\ ~gapConnected
          /\ ~everConnected

C14_Witness ==
    /\ startResult = "adv_error"
    /\ ev.type = "timeout"
    /\ ~gapAdvertising
    /\ ~gapConnected

\* what C15 says of every state
C15_Ordering ==
    /\ Issued("startAdvertising") > 0 =>
          initResult = "ok" /\ smHandler /\ gapCallbacks
    /\ ev.type = "initialized" =>
          /\ Issued("startAdvertising") = 0
          /\ startResult = "not_run"
          /\ initResult = "ok" => startPending /\ Issued("call_in") = 1
    /\ startResult # "not_run" => initResult = "ok" /\ ~startPending

\* C15: start_advertising is issued only after a successful initialization
\* that initialised the security manager and registered the handler; the
\* handler of initialized does not run start() but queues it once; start()
\* runs only as a queued step, at most once, and does run after a successful
\* initialization.
C15_StartupOrdering ==
    /\ []C15_Ordering
    /\ [][ ev'.type = "start" => startPending /\ startResult = "not_run" ]_vars
    /\ (initResult = "ok") ~> (startResult # "not_run")

C15_Witness ==
    /\ ev.type = "start"
    /\ startResult = "ok"
    /\ initResult = "ok"
    /\ gapAdvertising

\* C16: start() turns pairing-request authorisation on in the step in which
\* it starts advertising, so authorisation is on whenever the device
\* advertises or has, or has had, a connection, and every pairing request
\* is raised with it on.
C16_AuthorisedWhenConnectable ==
    /\ ev.type = "start" =>
          /\ authorisation <=> startResult = "ok"
          /\ authorisation <=> gapAdvertising
    /\ gapAdvertising \/ gapConnected \/ everConnected => authorisation
    /\ ev.type = "pairing_requested" => authorisation

C16_Witness ==
    /\ gapConnected
    /\ authorisation
    /\ ev.type = "pairing_requested"
    /\ ev.h = linkHandle

====
